---- MODULE Spec2Model ----
(***************************************************************************)
(* A model of Job (src/objects/job.py) of firewatch: the construction of   *)
(* a Job runs the failure-discovery pipeline                               *)
(*   construct -> _get_steps -> _download_logs -> _download_junit          *)
(*             -> _find_pod_failures -> _find_test_failures                *)
(*             -> _find_failures (dedup + rules) -> derived flags.         *)
(*                                                                         *)
(* Strings the code takes apart (job names, pull request ids, test names)  *)
(* are sequences of one-character strings.  An object key is kept as its   *)
(* "/"-separated segments: the directory segments after the listing prefix *)
(* (dirs) and the final segment (file).  A file name is the record         *)
(* [words, suf, ext]: "e2e-junit_1_2.xml" is words <<"e2e","junit">>,      *)
(* suf <<1,2>>, ext ".xml".  An optional value is <<>> (None) or <<v>>.    *)
(***************************************************************************)
EXTENDS Integers, Sequences, FiniteSets, TLC

VARIABLES
    name,            \* self.name
    pr_arg,          \* the pr_id argument of __init__
    env_pull,        \* os.getenv("PULL_NUMBER"), <<>> when unset or empty
    verbose,         \* firewatch_config.verbose_test_failure_reporting
    rules,           \* firewatch_config.failure_rules
    logs_blobs,      \* the bucket's listing under logs/<job>/<build>/artifacts/<safe>
    pr_blobs,        \* the bucket's listing under pr-logs/pull/openshift_release/<pr>/...
    fs0,             \* the files under /tmp/<build_id> when the run starts
    outage,          \* the stage in which the storage backend fails, and after how many blobs
    fs,              \* the files under /tmp/<build_id>: path -> the blob stored there
    assigned,        \* the attributes of self assigned so far
    is_rehearsal,    \* self.is_rehearsal
    pr_id,           \* self.pr_id
    steps,           \* self.steps
    pod_failures,    \* pod_failures of _find_failures
    test_failures,   \* test_failures of _find_failures
    failures,        \* self.failures, <<>> for None, <<list>> for a list
    has_test_failures,
    has_pod_failures,
    has_failures,
    error,           \* the exception that ended the run, "none" while it runs
    pc,              \* the position of __init__
    trace            \* the stages entered so far, in order

vars == <<name, pr_arg, env_pull, verbose, rules, logs_blobs, pr_blobs, fs0, fs,
          assigned, is_rehearsal, pr_id, steps, pod_failures, test_failures, failures,
          has_test_failures, has_pod_failures, has_failures, error, pc, outage, trace>>

inputs == <<name, pr_arg, env_pull, verbose, rules, logs_blobs, pr_blobs, fs0, outage>>

(***************************************************************************)
(* Bounds of the checked input sets.                                       *)
(***************************************************************************)
MaxNameTail == 3
MaxBlobs == 3
MaxRules == 2

None == <<>>
Some(v) == <<v>>

RECURSIVE SeqsUpTo(_, _)
SeqsUpTo(S, n) ==
    IF n = 0 THEN {<<>>}
    ELSE LET shorter == SeqsUpTo(S, n - 1)
         IN  shorter \cup {Append(s, x) : s \in {t \in shorter : Len(t) = n - 1}, x \in S}

Range(s) == {s[i] : i \in DOMAIN s}

(***************************************************************************)
(* Job.__init__, lines 55-72: rehearsal detection and the pull request id. *)
(***************************************************************************)
Rehearse == <<"r", "e", "h", "e", "a", "r", "s", "e">>

\* str.startswith
StartsWith(s, p) == Len(s) >= Len(p) /\ SubSeq(s, 1, Len(p)) = p

\* str.split(sep): scan the characters, closing a token at every separator
RECURSIVE SplitFrom(_, _, _, _, _)
SplitFrom(s, sep, i, cur, acc) ==
    IF i > Len(s) THEN Append(acc, cur)
    ELSE IF s[i] = sep THEN SplitFrom(s, sep, i + 1, <<>>, Append(acc, cur))
    ELSE SplitFrom(s, sep, i + 1, Append(cur, s[i]), acc)

Split(s, sep) == SplitFrom(s, sep, 1, <<>>, <<>>)

_check_is_rehearsal(job_name) == StartsWith(job_name, Rehearse)

\* variant: the first token of the name taken for the second
DerivePrId_FirstToken(job_name, arg, env) ==
    IF arg # <<>> THEN arg
    ELSE IF env # <<>> THEN env
    ELSE LET tokens == Split(job_name, "-")
         IN  IF Len(tokens) >= 2 THEN tokens[1] ELSE <<"1">>

\* pr_id or os.getenv("PULL_NUMBER") or self.name.split("-")[1], "1" on IndexError
DerivePrId(job_name, arg, env) ==
    IF arg # <<>> THEN arg
    ELSE IF env # <<>> THEN env
    ELSE LET tokens == Split(job_name, "-")
         IN  IF Len(tokens) >= 2 THEN tokens[2] ELSE <<"1">>

(***************************************************************************)
(* File names, object keys and the working directory.                      *)
(***************************************************************************)
FileName(words, ext) == [words |-> words, suf |-> <<>>, ext |-> ext]

FinishedJson == FileName(<<"finished">>, ".json")
BuildLogTxt == FileName(<<"build-log">>, ".txt")
JunitXml == FileName(<<"junit">>, ".xml")

\* the word an extension contributes to a substring test
ExtWord(ext) ==
    CASE ext = ".xml" -> "xml"
      [] ext = ".json" -> "json"
      [] ext = ".txt" -> "txt"
      [] OTHER -> ""

\* token in file_name, for the tokens "junit" and "xml"
Contains(file, token) == token \in (Range(file.words) \cup {ExtWord(file.ext)})

\* f"{filename}_{str(file_counter)}{extension}" after os.path.splitext
Suffixed(file, n) == [file EXCEPT !.suf = Append(@, n)]

Path(dir, step, file) == [dir |-> dir, step |-> step, file |-> file]

\* the directory segments of the prefix a listing is made under
Prefix(rehearsal) ==
    IF rehearsal
    THEN <<"pr-logs", "pull", "openshift_release", "<pr_id>", "<job_name>",
           "<build_id>", "artifacts", "<job_name_safe>">>
    ELSE <<"logs", "<job_name>", "<build_id>", "artifacts", "<job_name_safe>">>

\* blob.name.split("/") without its last element; every listed key has at
\* least one directory segment after the prefix
KeyDirs(blob, rehearsal) == Prefix(rehearsal) \o blob.dirs

\* blob.name.split("/")[-2]
SecondToLast(blob, rehearsal) ==
    LET d == KeyDirs(blob, rehearsal) IN d[Len(d)]

\* blob.name.split("/")[5]
SegmentFive(blob, rehearsal) == KeyDirs(blob, rehearsal)[6]

(***************************************************************************)
(* for blob in storage_client.list_blobs(...): the iteration yields the    *)
(* listing, or, when the backend fails in this stage, some first blobs of  *)
(* it and then raises; nothing catches the error.                          *)
(***************************************************************************)
NoOutage == [stage |-> "never", after |-> 0]

Yielded(blobs, out, stage) ==
    IF out.stage = stage
    THEN [blobs |-> SubSeq(blobs, 1, IF out.after < Len(blobs) THEN out.after ELSE Len(blobs)),
          error |-> "StorageError"]
    ELSE [blobs |-> blobs, error |-> "none"]

\* the error a loop over a listing ends with: its own, else the listing's
LoopError(own, listing) == IF own # "none" THEN own ELSE listing

(***************************************************************************)
(* _get_steps, lines 301-318.  It always lists the logs/ prefix.           *)
(***************************************************************************)
RECURSIVE StepsFrom(_, _, _)
StepsFrom(blobs, i, acc) ==
    IF i > Len(blobs) THEN acc
    ELSE StepsFrom(blobs, i + 1, Append(acc, SecondToLast(blobs[i], FALSE)))

_get_steps(blobs) == StepsFrom(blobs, 1, <<>>)

\* variant: an empty step list accepted for every job
StepsAccepted_Always(found, rehearsal) == Len(found) >= 0 \/ rehearsal

\* len(steps) > 0 or self.is_rehearsal
StepsAccepted(found, rehearsal) == Len(found) > 0 \/ rehearsal

(***************************************************************************)
(* _download_logs, lines 244-277, and _download_junit, lines 173-215.      *)
(* Both list the prefix chosen by self.is_rehearsal.  open(path, "xb")     *)
(* raises FileExistsError when the path exists.                            *)
(***************************************************************************)
files_to_download == {FinishedJson, BuildLogTxt}

RECURSIVE DownloadLogsFrom(_, _, _, _)
DownloadLogsFrom(blobs, rehearsal, i, f) ==
    IF i > Len(blobs) THEN [fs |-> f, error |-> "none"]
    ELSE LET blob == blobs[i]
             file == Path("logs", SecondToLast(blob, rehearsal), blob.file)
         IN  IF blob.file \notin files_to_download
             THEN DownloadLogsFrom(blobs, rehearsal, i + 1, f)
             ELSE IF file \in DOMAIN f
             THEN [fs |-> f, error |-> "FileExistsError"]
             ELSE DownloadLogsFrom(blobs, rehearsal, i + 1, f @@ (file :> blob))

_download_logs(blobs, rehearsal, f) == DownloadLogsFrom(blobs, rehearsal, 1, f)

\* the while loop of lines 199-207
RECURSIVE FreePath(_, _, _, _, _)
FreePath(f, step, file, candidate, file_counter) ==
    IF Path("artifacts", step, candidate) \in DOMAIN f
    THEN FreePath(f, step, file, Suffixed(file, file_counter), file_counter + 1)
    ELSE Path("artifacts", step, candidate)

RECURSIVE DownloadJunitFrom(_, _, _, _)
DownloadJunitFrom(blobs, rehearsal, i, f) ==
    IF i > Len(blobs) THEN [fs |-> f, error |-> "none"]
    ELSE LET blob == blobs[i]
             blob_step == SegmentFive(blob, rehearsal)
             file_path == FreePath(f, blob_step, blob.file, blob.file, 1)
         IN  IF ~Contains(blob.file, "junit")
             THEN DownloadJunitFrom(blobs, rehearsal, i + 1, f)
             ELSE DownloadJunitFrom(blobs, rehearsal, i + 1, f @@ (file_path :> blob))

_download_junit(blobs, rehearsal, f) == DownloadJunitFrom(blobs, rehearsal, 1, f)

(***************************************************************************)
(* What a file holds.  kind "json" is a JSON object whose "passed" member  *)
(* is absent (None) or "true", "false" or "null"; kind "junit" is a JUnit  *)
(* document; kind "xml" is well-formed XML that is no JUnit document; kind *)
(* "text" parses as neither.                                               *)
(***************************************************************************)
Data(kind, passed, suites) == [kind |-> kind, passed |-> passed, suites |-> suites]

Json(passed) == Data("json", passed, <<>>)
Junit(suites) == Data("junit", None, suites)
Text == Data("text", None, <<>>)
OtherXml == Data("xml", None, <<>>)

\* Failure(failed_step, failure_type, failed_test_name, failed_test_junit_path):
\* the ignore flag starts false
Failure(step, failure_type, test_name, junit_path) ==
    [step |-> step, failure_type |-> failure_type, failed_test_name |-> test_name,
     failed_test_junit_path |-> junit_path, ignore |-> FALSE]

\* the orders in which os.walk can yield the files of S: the files of one
\* directory come together, the directories in any order
WalkOrders(S) ==
    LET n == Cardinality(S)
    IN  {o \in [1..n -> S] :
            /\ \A i, j \in 1..n : o[i] = o[j] => i = j
            /\ \A i, j, k \in 1..n :
                 (i < j /\ j < k /\ o[i].step = o[k].step) => o[j].step = o[i].step}

(***************************************************************************)
(* _find_pod_failures, lines 383-399.                                      *)
(***************************************************************************)
PodFiles(f) == {p \in DOMAIN f : p.dir = "logs" /\ p.file = FinishedJson}

\* variant: a missing "passed" read as true
PassedIsFalse_DefaultTrue(data) ==
    (IF data.passed = None THEN "true" ELSE data.passed[1]) = "false"

\* data.get("passed", False) is False
PassedIsFalse(data) ==
    (IF data.passed = None THEN "false" ELSE data.passed[1]) = "false"

RECURSIVE PodScanFrom(_, _, _, _)
PodScanFrom(f, order, i, acc) ==
    IF i > Len(order) THEN [failures |-> acc, error |-> "none"]
    ELSE LET file_path == order[i]
             data == f[file_path].data
         IN  IF data.kind # "json"
             THEN [failures |-> acc, error |-> "JSONDecodeError"]
             ELSE IF PassedIsFalse(data)
             THEN PodScanFrom(f, order, i + 1,
                      Append(acc, Failure(file_path.step, "pod_failure", None, None)))
             ELSE PodScanFrom(f, order, i + 1, acc)

_find_pod_failures(f, order) == PodScanFrom(f, order, 1, <<>>)

(***************************************************************************)
(* _find_test_failures, lines 413-490.  Iterating a document yields its    *)
(* suites and iterating a suite its cases; where the document's root is a  *)
(* single suite, the outer loop yields test cases and the inner loop their *)
(* result elements, which have no "result" attribute (cls is not           *)
(* "TestCase").                                                            *)
(***************************************************************************)
JunitFiles(f) ==
    {p \in DOMAIN f : p.dir = "artifacts" /\ Contains(p.file, "junit")
                                          /\ Contains(p.file, "xml")}

\* str.replace(" ", "_")
ReplaceSpaces(s) == [i \in DOMAIN s |-> IF s[i] = " " THEN "_" ELSE s[i]]

IsFailureOrError(cls) == cls \in {"Failure", "Error"}

\* the dictionary of lines 437-450 and 457-470
FailureDict(step, test_name, file_path, v) ==
    [step |-> step, failure_type |-> "test_failure",
     failed_test_name |-> IF v THEN Some(ReplaceSpaces(test_name)) ELSE None,
     failed_test_junit_path |-> IF v THEN Some(file_path) ELSE None]

\* variant: the membership test dropped
AppendAlways(failures_list, failure) == Append(failures_list, failure)

\* if failure not in failures_list: failures_list.append(failure)
AppendIfNew(failures_list, failure) ==
    IF failure \in Range(failures_list) THEN failures_list
    ELSE Append(failures_list, failure)

RECURSIVE ResultsFrom(_, _, _, _)
ResultsFrom(result, r, failure, acc) ==
    IF r > Len(result) THEN acc
    ELSE ResultsFrom(result, r + 1, failure,
             IF IsFailureOrError(result[r]) THEN AppendIfNew(acc, failure) ELSE acc)

RECURSIVE CasesFrom(_, _, _, _, _, _)
CasesFrom(suite, c, step, file_path, v, acc) ==
    IF c > Len(suite.cases) THEN acc
    ELSE LET case == suite.cases[c]
         IN  CasesFrom(suite, c + 1, step, file_path, v,
                 IF case.cls = "TestCase" /\ Len(case.result) > 0
                 THEN ResultsFrom(case.result, 1,
                          FailureDict(step, case.name, file_path, v), acc)
                 ELSE IF IsFailureOrError(case.cls)
                 THEN AppendIfNew(acc, FailureDict(step, suite.name, file_path, v))
                 ELSE acc)

RECURSIVE SuitesFrom(_, _, _, _, _, _)
SuitesFrom(suites, s, step, file_path, v, acc) ==
    IF s > Len(suites) THEN acc
    ELSE SuitesFrom(suites, s + 1, step, file_path, v,
             CasesFrom(suites[s], 1, step, file_path, v, acc))

RECURSIVE TestScanFrom(_, _, _, _, _)
TestScanFrom(f, order, i, v, acc) ==
    IF i > Len(order) THEN acc
    ELSE LET file_path == order[i]
             data == f[file_path].data
         IN  IF data.kind # "junit"
             THEN TestScanFrom(f, order, i + 1, v, acc)
             ELSE TestScanFrom(f, order, i + 1, v,
                      SuitesFrom(data.suites, 1, file_path.step, file_path, v, acc))

\* lines 479-488
Materialise(failures_list) ==
    [i \in DOMAIN failures_list |->
        Failure(failures_list[i].step, failures_list[i].failure_type,
                failures_list[i].failed_test_name,
                failures_list[i].failed_test_junit_path)]

_find_test_failures(f, order, v) == Materialise(TestScanFrom(f, order, 1, v, <<>>))

(***************************************************************************)
(* _find_failures, lines 354-369.  A rule is [step, failure_type, ignore]: *)
(* it matches a failure of its step ("*": any) and type ("all": any).      *)
(***************************************************************************)
MatchesFailure(rule, failure) ==
    /\ rule.step \in {"*", failure.step}
    /\ rule.failure_type \in {"all", failure.failure_type}

\* for rule in failure_rules: failure.ignore = rule.matches_failure(failure) and rule.ignore
RECURSIVE ApplyRules(_, _, _)
ApplyRules(failure_rules, k, failure) ==
    IF k > Len(failure_rules) THEN failure
    ELSE ApplyRules(failure_rules, k + 1,
             [failure EXCEPT !.ignore =
                 MatchesFailure(failure_rules[k], failure) /\ failure_rules[k].ignore])

RECURSIVE CombineFrom(_, _, _, _, _)
CombineFrom(all, failure_rules, i, unique_steps_with_failures, failures_list) ==
    IF i > Len(all) THEN failures_list
    ELSE IF all[i].step \in unique_steps_with_failures
    THEN CombineFrom(all, failure_rules, i + 1, unique_steps_with_failures, failures_list)
    ELSE CombineFrom(all, failure_rules, i + 1,
             unique_steps_with_failures \cup {all[i].step},
             Append(failures_list, ApplyRules(failure_rules, 1, all[i])))

\* variant: pod failures listed before test failures
_find_failures_PodFirst(pod, test, failure_rules) ==
    LET failures_list == CombineFrom(pod \o test, failure_rules, 1, {}, <<>>)
    IN  IF Len(failures_list) > 0 THEN Some(failures_list) ELSE None

_find_failures(pod, test, failure_rules) ==
    LET failures_list == CombineFrom(test \o pod, failure_rules, 1, {}, <<>>)
    IN  IF Len(failures_list) > 0 THEN Some(failures_list) ELSE None

(***************************************************************************)
(* The derived flags, lines 116-123.                                       *)
(***************************************************************************)
\* self.failures or []
OrEmpty(opt) == IF opt = None THEN <<>> ELSE opt[1]

RECURSIVE AnyOfType(_, _, _)
AnyOfType(list, i, failure_type) ==
    IF i > Len(list) THEN FALSE
    ELSE IF list[i].failure_type = failure_type THEN TRUE
    ELSE AnyOfType(list, i + 1, failure_type)

\* variant: any failure counted as a pod failure
HasPodFailures_AnyType(opt) == Len(OrEmpty(opt)) > 0

HasTestFailures(opt) == AnyOfType(OrEmpty(opt), 1, "test_failure")
HasPodFailures(opt) == AnyOfType(OrEmpty(opt), 1, "pod_failure")

\* True if self.failures else False
HasFailures(opt) == opt # None /\ Len(opt[1]) > 0

(***************************************************************************)
(* The checked inputs.                                                     *)
(***************************************************************************)
Blob(dirs, file, data) == [dirs |-> dirs, file |-> file, data |-> data]

Periodic == <<"p", "-", "c", "i">>
RehearsalJob == Rehearse \o <<"-", "1", "2", "-", "f">>

NamePrefixes == {<<>>, Rehearse, SubSeq(Rehearse, 1, 7), <<"x">> \o Rehearse}
JobNames == {p \o t : p \in NamePrefixes, t \in SeqsUpTo({"-", "1", "a"}, MaxNameTail)}
                \ {<<>>}
PullNumbers == {<<>>, <<"7">>}

\* test names
TestX == <<"t", " ", "x">>
TestX_ == <<"t", "_", "x">>
SuiteS == <<"s", " ", "1">>

Case(case_name, result) == [cls |-> "TestCase", name |-> case_name, result |-> result]
Element(cls) == [cls |-> cls, name |-> <<>>, result |-> <<>>]
Suite(suite_name, cases) == [name |-> suite_name, cases |-> cases]

DocPass == Junit(<<Suite(SuiteS, <<Case(TestX, <<>>), Case(TestX_, <<"Skipped">>)>>)>>)
DocFail == Junit(<<Suite(SuiteS, <<Case(TestX, <<"Failure">>)>>)>>)
DocTwice == Junit(<<Suite(SuiteS, <<Case(TestX, <<"Failure", "Error">>),
                                     Case(TestX_, <<"Error">>)>>)>>)
DocRootSuite == Junit(<<Suite(TestX, <<Element("Failure")>>),
                        Suite(SuiteS, <<Element("Skipped"), Element("Error")>>)>>)

JunitData == {DocPass, DocFail, DocTwice, DocRootSuite, Text, OtherXml}
FinishedData == {Json(Some("true")), Json(Some("false")), Json(None),
                 Json(Some("null")), Text}

EmptyFs == <<>>
OldBlob == Blob(<<"old">>, JunitXml, DocFail)
OldLog == Blob(<<"old">>, FinishedJson, Json(Some("false")))
OldArtifacts == (Path("artifacts", "build", Suffixed(JunitXml, 1)) :> OldBlob)
OldLogs == (Path("logs", "build", FinishedJson) :> OldLog)

\* sequences of at most n blobs with distinct keys
DistinctKeys(s) == \A i, j \in DOMAIN s :
    (s[i].dirs = s[j].dirs /\ s[i].file = s[j].file) => i = j
Listings(B, n) == {s \in SeqsUpTo(B, n) : DistinctKeys(s)}

\* the names family: every job name, a fixed bucket
DefaultBlobs ==
    <<Blob(<<"build">>, FinishedJson, Json(Some("false"))),
      Blob(<<"build">>, BuildLogTxt, Text),
      Blob(<<"build">>, FileName(<<"notes">>, ".txt"), Text),
      Blob(<<"test">>, FinishedJson, Json(Some("true"))),
      Blob(<<"test">>, JunitXml, DocFail)>>

\* the store family: every listing of a bucket with colliding keys
StoreDirs == {<<"build">>, <<"build", "sub">>, <<"sub", "build">>}
StoreFiles == {FinishedJson, JunitXml, Suffixed(JunitXml, 1)}
StoreData(dirs, file) ==
    IF file = FinishedJson
    THEN (IF dirs = <<"build">> THEN Json(Some("false"))
          ELSE IF dirs = <<"sub", "build">> THEN Json(Some("true")) ELSE Json(None))
    ELSE (IF dirs = <<"build">> THEN DocFail
          ELSE IF dirs = <<"sub", "build">> THEN DocPass ELSE DocTwice)
StoreBlobs == {Blob(d, f, StoreData(d, f)) : d \in StoreDirs, f \in StoreFiles}

\* the contents family: two steps, every content of their files
Slot(dirs, file, D) == {<<>>} \cup {<<Blob(dirs, file, d)>> : d \in D}
ContentListings ==
    {a \o b \o c \o d \o e :
        a \in Slot(<<"build">>, FinishedJson, FinishedData),
        b \in Slot(<<"build">>, JunitXml, JunitData),
        c \in Slot(<<"build", "sub">>, JunitXml, {DocFail, DocRootSuite, Text}),
        d \in Slot(<<"test">>, FinishedJson, FinishedData),
        e \in Slot(<<"test">>, JunitXml, {DocFail, DocTwice, OtherXml})}

\* the rules family: every rule sequence, buckets with failures of both kinds
Rule(step, failure_type, ignore) ==
    [step |-> step, failure_type |-> failure_type, ignore |-> ignore]
RuleSet == {Rule(s, t, i) : s \in {"*", "build", "test"},
                            t \in {"all", "pod_failure", "test_failure"},
                            i \in BOOLEAN}
RuleListings ==
    {DefaultBlobs,
     <<Blob(<<"test">>, JunitXml, DocFail),
       Blob(<<"test">>, FinishedJson, Json(None)),
       Blob(<<"build">>, JunitXml, DocRootSuite),
       Blob(<<"deploy">>, FinishedJson, Json(Some("false")))>>}

InitNames ==
    /\ name \in JobNames
    /\ pr_arg \in PullNumbers
    /\ env_pull \in {<<>>, <<"8">>}
    /\ verbose = FALSE
    /\ rules = <<>>
    /\ logs_blobs = DefaultBlobs
    /\ pr_blobs = DefaultBlobs
    /\ fs0 = EmptyFs
    /\ outage = NoOutage

InitStore ==
    /\ name \in {Periodic, RehearsalJob}
    /\ pr_arg = <<>>
    /\ env_pull = <<>>
    /\ verbose = FALSE
    /\ rules = <<Rule("*", "pod_failure", TRUE)>>
    /\ \E listing \in Listings(StoreBlobs, MaxBlobs) :
          IF name = Periodic
          THEN logs_blobs = listing /\ pr_blobs = <<>>
          ELSE logs_blobs = <<>> /\ pr_blobs = listing
    /\ fs0 \in {EmptyFs, OldArtifacts, OldLogs}
    /\ outage = NoOutage

InitContents ==
    /\ name = Periodic
    /\ pr_arg = <<>>
    /\ env_pull = <<>>
    /\ verbose \in BOOLEAN
    /\ rules = <<>>
    /\ logs_blobs \in ContentListings
    /\ pr_blobs = <<>>
    /\ fs0 = EmptyFs
    /\ outage = NoOutage

InitRules ==
    /\ name = Periodic
    /\ pr_arg = <<>>
    /\ env_pull = <<>>
    /\ verbose = FALSE
    /\ rules \in SeqsUpTo(RuleSet, MaxRules)
    /\ logs_blobs \in RuleListings
    /\ pr_blobs = <<>>
    /\ fs0 = EmptyFs
    /\ outage = NoOutage

\* the outage family: the backend failing in each stage that lists the bucket
InitOutage ==
    /\ name \in {Periodic, RehearsalJob}
    /\ pr_arg = <<>>
    /\ env_pull = <<>>
    /\ verbose \in BOOLEAN
    /\ rules = <<Rule("*", "pod_failure", TRUE)>>
    /\ logs_blobs \in {<<>>, DefaultBlobs}
    /\ pr_blobs = DefaultBlobs
    /\ fs0 \in {EmptyFs, OldArtifacts, OldLogs}
    /\ outage \in {[stage |-> s, after |-> n] :
                     s \in {"get_steps", "download_logs", "download_junit"},
                     n \in 0..MaxBlobs}

Init ==
    /\ InitNames \/ InitStore \/ InitContents \/ InitRules \/ InitOutage
    /\ trace = <<>>
    /\ fs = fs0
    /\ assigned = {"name", "name_safe", "build_id"}
    /\ is_rehearsal = FALSE
    /\ pr_id = <<>>
    /\ steps = <<>>
    /\ pod_failures = <<>>
    /\ test_failures = <<>>
    /\ failures = None
    /\ has_test_failures = FALSE
    /\ has_pod_failures = FALSE
    /\ has_failures = FALSE
    /\ error = "none"
    /\ pc = "construct"

(***************************************************************************)
(* Job.__init__, one action per stage.                                     *)
(***************************************************************************)
\* the listing the download passes get
DownloadBlobs == IF is_rehearsal THEN pr_blobs ELSE logs_blobs

\* lines 55-78
Construct ==
    /\ pc = "construct"
    /\ is_rehearsal' = _check_is_rehearsal(name)
    /\ pr_id' = IF _check_is_rehearsal(name) THEN DerivePrId(name, pr_arg, env_pull)
                ELSE <<>>
    /\ assigned' = assigned \cup {"is_rehearsal", "pr_id", "firewatch_config", "bucket"}
    /\ pc' = "get_steps"
    /\ trace' = Append(trace, "construct")
    /\ UNCHANGED <<inputs, fs, steps, pod_failures, test_failures, failures,
                   has_test_failures, has_pod_failures, has_failures, error>>

\* lines 81-87 and 301-318
GetSteps ==
    /\ pc = "get_steps"
    /\ LET listing == Yielded(logs_blobs, outage, "get_steps")
           found == _get_steps(listing.blobs)
       IN  IF listing.error # "none"
           THEN /\ steps' = steps
                /\ assigned' = assigned
                /\ error' = listing.error
                /\ pc' = "raised"
           ELSE IF StepsAccepted(found, is_rehearsal)
           THEN /\ steps' = found
                /\ assigned' = assigned \cup {"steps"}
                /\ error' = error
                /\ pc' = "download_logs"
           ELSE /\ steps' = steps
                /\ assigned' = assigned
                /\ error' = "SystemExit"
                /\ pc' = "exited"
    /\ trace' = Append(trace, "get_steps")
    /\ UNCHANGED <<inputs, fs, is_rehearsal, pr_id, pod_failures, test_failures,
                   failures, has_test_failures, has_pod_failures, has_failures>>

\* lines 90-99 and 242-277
DownloadLogs ==
    /\ pc = "download_logs"
    /\ LET listing == Yielded(DownloadBlobs, outage, "download_logs")
           r == _download_logs(listing.blobs, is_rehearsal, fs)
           raised == LoopError(r.error, listing.error)
       IN  /\ fs' = r.fs
           /\ error' = raised
           /\ IF raised = "none"
              THEN /\ assigned' = assigned \cup {"download_path", "logs_dir"}
                   /\ pc' = "download_junit"
              ELSE /\ assigned' = assigned \cup {"download_path"}
                   /\ pc' = "raised"
    /\ trace' = Append(trace, "download_logs")
    /\ UNCHANGED <<inputs, is_rehearsal, pr_id, steps, pod_failures, test_failures,
                   failures, has_test_failures, has_pod_failures, has_failures>>

\* lines 100-108 and 170-215
DownloadJunit ==
    /\ pc = "download_junit"
    /\ LET listing == Yielded(DownloadBlobs, outage, "download_junit")
           r == _download_junit(listing.blobs, is_rehearsal, fs)
           raised == LoopError(r.error, listing.error)
       IN  /\ fs' = r.fs
           /\ error' = raised
           /\ IF raised = "none"
              THEN /\ assigned' = assigned \cup {"junit_dir"}
                   /\ pc' = "find_pod_failures"
              ELSE /\ assigned' = assigned
                   /\ pc' = "raised"
    /\ trace' = Append(trace, "download_junit")
    /\ UNCHANGED <<inputs, is_rehearsal, pr_id, steps, pod_failures, test_failures,
                   failures, has_test_failures, has_pod_failures, has_failures>>

\* variant: the scan's exception swallowed, its partial list passed on
FindPodFailures_ErrorSwallowed ==
    /\ pc = "find_pod_failures"
    /\ \E order \in WalkOrders(PodFiles(fs)) :
          LET r == _find_pod_failures(fs, order)
          IN  /\ error' = r.error
              /\ pod_failures' = r.failures
              /\ pc' = "find_test_failures"
    /\ trace' = Append(trace, "find_pod_failures")
    /\ UNCHANGED <<inputs, fs, assigned, is_rehearsal, pr_id, steps, test_failures,
                   failures, has_test_failures, has_pod_failures, has_failures>>

\* line 352 and 383-399
FindPodFailures ==
    /\ pc = "find_pod_failures"
    /\ \E order \in WalkOrders(PodFiles(fs)) :
          LET r == _find_pod_failures(fs, order)
          IN  /\ error' = r.error
              /\ IF r.error = "none"
                 THEN pod_failures' = r.failures /\ pc' = "find_test_failures"
                 ELSE pod_failures' = pod_failures /\ pc' = "raised"
    /\ trace' = Append(trace, "find_pod_failures")
    /\ UNCHANGED <<inputs, fs, assigned, is_rehearsal, pr_id, steps, test_failures,
                   failures, has_test_failures, has_pod_failures, has_failures>>

\* line 353 and 413-490
FindTestFailures ==
    /\ pc = "find_test_failures"
    /\ \E order \in WalkOrders(JunitFiles(fs)) :
          test_failures' = _find_test_failures(fs, order, verbose)
    /\ pc' = "find_failures"
    /\ trace' = Append(trace, "find_test_failures")
    /\ UNCHANGED <<inputs, fs, assigned, is_rehearsal, pr_id, steps, pod_failures,
                   failures, has_test_failures, has_pod_failures, has_failures, error>>

\* lines 111-114 and 354-369
FindFailures ==
    /\ pc = "find_failures"
    /\ failures' = _find_failures(pod_failures, test_failures, rules)
    /\ assigned' = assigned \cup {"failures"}
    /\ pc' = "derive_flags"
    /\ trace' = Append(trace, "find_failures")
    /\ UNCHANGED <<inputs, fs, is_rehearsal, pr_id, steps, pod_failures, test_failures,
                   has_test_failures, has_pod_failures, has_failures, error>>

\* lines 116-123
DeriveFlags ==
    /\ pc = "derive_flags"
    /\ has_test_failures' = HasTestFailures(failures)
    /\ has_pod_failures' = HasPodFailures(failures)
    /\ has_failures' = HasFailures(failures)
    /\ assigned' = assigned \cup {"has_test_failures", "has_pod_failures", "has_failures"}
    /\ pc' = "done"
    /\ trace' = Append(trace, "derive_flags")
    /\ UNCHANGED <<inputs, fs, is_rehearsal, pr_id, steps, pod_failures, test_failures,
                   failures, error>>

Next ==
    \/ Construct
    \/ GetSteps
    \/ DownloadLogs
    \/ DownloadJunit
    \/ FindPodFailures
    \/ FindTestFailures
    \/ FindFailures
    \/ DeriveFlags

Spec == Init /\ [][Next]_vars

(***************************************************************************)
(* Stages of the run, by what has completed.                               *)
(***************************************************************************)
AfterConstruct == pc # "construct"
AfterSteps == pc \in {"download_logs", "download_junit", "find_pod_failures",
                      "find_test_failures", "find_failures", "derive_flags", "done"}
AfterLogs == pc \in {"download_junit", "find_pod_failures", "find_test_failures",
                     "find_failures", "derive_flags", "done"}
AfterJunit == pc \in {"find_pod_failures", "find_test_failures", "find_failures",
                      "derive_flags", "done"}
AfterPodScan == pc \in {"find_test_failures", "find_failures", "derive_flags", "done"}
AfterTestScan == pc \in {"find_failures", "derive_flags", "done"}
AfterFindFailures == pc \in {"derive_flags", "done"}

Max(S) == CHOOSE x \in S : \A y \in S : y <= x
Min(S) == CHOOSE x \in S : \A y \in S : x <= y

WithoutIgnore(failure) == [failure EXCEPT !.ignore = FALSE]

(***************************************************************************)
(* C1                                                                      *)
(***************************************************************************)
\* the ignore directive of the last rule, in configured order, that matches
LastMatchingIgnore(failure) ==
    LET matching == {k \in DOMAIN rules : MatchesFailure(rules[k], failure)}
    IN  IF matching = {} THEN FALSE ELSE rules[Max(matching)].ignore

\* C1: after classification, the ignore flag of every surviving failure is
\* the ignore directive of the last configured rule that matches it, and
\* false when no rule matches; later rules that do not match leave it alone.
C1_LastMatchingRuleWins ==
    AfterFindFailures =>
        \A i \in DOMAIN OrEmpty(failures) :
            OrEmpty(failures)[i].ignore = LastMatchingIgnore(OrEmpty(failures)[i])

(***************************************************************************)
(* C2                                                                      *)
(***************************************************************************)
\* C2: the failure list is the first-occurrence-per-step subsequence of
\* test failures followed by pod failures: each step with a detected
\* failure appears exactly once, in that order, and a step with failures of
\* both kinds keeps its test failure.
C2_FirstOccurrencePerStep ==
    AfterFindFailures =>
        LET all == test_failures \o pod_failures
            keep == {i \in DOMAIN all : \A j \in 1..(i - 1) : all[j].step # all[i].step}
            out == OrEmpty(failures)
        IN  /\ Len(out) = Cardinality(keep)
            /\ \A k \in keep :
                 LET pos == Cardinality({j \in keep : j <= k})
                 IN  WithoutIgnore(out[pos]) = WithoutIgnore(all[k])
            /\ \A s \in {all[i].step : i \in DOMAIN all} :
                 Cardinality({i \in DOMAIN out : out[i].step = s}) = 1
            /\ \A i \in DOMAIN out :
                 (\E t \in DOMAIN test_failures : test_failures[t].step = out[i].step)
                     => out[i].failure_type = "test_failure"
            /\ (failures = None) = (all = <<>>)

\* a step with a test failure and a pod failure has been deduplicated
C2_Witness ==
    /\ pc = "done"
    /\ \E t \in DOMAIN test_failures, q \in DOMAIN pod_failures :
          test_failures[t].step = pod_failures[q].step
    /\ Len(OrEmpty(failures)) >= 2

(***************************************************************************)
(* C3                                                                      *)
(***************************************************************************)
\* C3: when the pod scan has run, every finished.json under the logs tree
\* whose "passed" is false or absent has exactly one POD_FAILURE, of its
\* parent directory's name and with no test name and no report path, one
\* whose "passed" is true has none, and the scan emitted nothing else.
C3_PodScanFailClosed ==
    AfterPodScan =>
        /\ \A p \in PodFiles(fs) :
             LET n == Cardinality({i \in DOMAIN pod_failures :
                          pod_failures[i] = Failure(p.step, "pod_failure", None, None)})
             IN  /\ fs[p].data.kind = "json"
                 /\ fs[p].data.passed \in {None, Some("false")} => n = 1
                 /\ fs[p].data.passed = Some("true") => n = 0
        /\ \A i \in DOMAIN pod_failures :
             \E p \in PodFiles(fs) :
                /\ fs[p].data.passed \in {None, Some("false")}
                /\ pod_failures[i] = Failure(p.step, "pod_failure", None, None)

\* a scan that met a finished.json without "passed" and one with passed: true
C3_Witness ==
    /\ pc = "done"
    /\ \E p, q \in PodFiles(fs) :
          /\ fs[p].data = Json(None)
          /\ fs[q].data = Json(Some("true"))
          /\ Len(pod_failures) = 1

(***************************************************************************)
(* C4                                                                      *)
(***************************************************************************)
IsRehearsalName == Len(name) >= 8 /\ \A i \in 1..8 : name[i] = Rehearse[i]

\* C4: a run whose listing yields zero steps for a job that is no rehearsal ends
\* in exit(1) with no download made, no scan run and no result attribute
\* assigned; a rehearsal never exits there, and the exit has no other cause.
C4_ZeroStepsFatalUnlessRehearsal ==
    /\ (logs_blobs = <<>> /\ ~IsRehearsalName /\ AfterConstruct
            /\ outage.stage # "get_steps") =>
          (pc \in {"get_steps", "exited"})
    /\ pc = "exited" =>
          /\ error = "SystemExit"
          /\ logs_blobs = <<>> /\ ~IsRehearsalName
          /\ fs = fs0
          /\ pod_failures = <<>> /\ test_failures = <<>> /\ failures = None
          /\ assigned \cap {"steps", "download_path", "logs_dir", "junit_dir", "failures",
                            "has_test_failures", "has_pod_failures", "has_failures"} = {}
    /\ error = "SystemExit" => pc = "exited"
    /\ (IsRehearsalName /\ logs_blobs = <<>> /\ pc \notin {"construct", "get_steps"}
            /\ outage.stage # "get_steps") =>
          /\ pc # "exited"
          /\ "steps" \in assigned /\ steps = <<>>

\* the fatal exit has happened
C4_Witness == pc = "exited" /\ Len(pr_blobs) = 0 /\ fs0 # EmptyFs

(***************************************************************************)
(* C5                                                                      *)
(***************************************************************************)
\* the blobs a pass downloads and where each would go without a collision
Wanted(dir) ==
    {i \in DOMAIN DownloadBlobs :
        IF dir = "logs" THEN DownloadBlobs[i].file \in files_to_download
        ELSE Contains(DownloadBlobs[i].file, "junit")}
Destination(dir, i) ==
    Path(dir,
         IF dir = "logs" THEN SecondToLast(DownloadBlobs[i], is_rehearsal)
         ELSE SegmentFive(DownloadBlobs[i], is_rehearsal),
         DownloadBlobs[i].file)

\* blob i of the listing is in a file of its own, named for its destination
Holds(p, dir, i) ==
    /\ p \in DOMAIN fs /\ p \notin DOMAIN fs0
    /\ fs[p] = DownloadBlobs[i]
    /\ p.dir = dir /\ p.step = Destination(dir, i).step
    /\ \/ p.file = Destination(dir, i).file
       \/ \E n \in 1..(Len(DownloadBlobs) + Cardinality(DOMAIN fs0)) :
             p.file = Suffixed(Destination(dir, i).file, n)

LastSuffix(p, dir, i) ==
    IF p.file = Destination(dir, i).file THEN 0 ELSE p.file.suf[Len(p.file.suf)]

\* every blob of the pass is kept, and colliding blobs are numbered in
\* listing order
PassKeepsAll(dir) ==
    /\ \A i \in Wanted(dir) : \E p \in DOMAIN fs : Holds(p, dir, i)
    /\ \A i, j \in Wanted(dir) :
         (i < j /\ Destination(dir, i) = Destination(dir, j)) =>
             \A p, q \in DOMAIN fs :
                 (Holds(p, dir, i) /\ Holds(q, dir, j)) =>
                     LastSuffix(p, dir, i) < LastSuffix(q, dir, j)

NothingOverwritten == \A p \in DOMAIN fs0 : p \in DOMAIN fs /\ fs[p] = fs0[p]

\* C5: in the log pass and in the report pass alike, whatever files exist
\* already, the pass completes, the N objects that map to one destination
\* end in N distinct files, suffixed _1, _2, ... in listing order, and no
\* existing file is overwritten.
C5_CollisionLaw ==
    /\ error # "FileExistsError"
    /\ NothingOverwritten
    /\ AfterLogs => PassKeepsAll("logs")
    /\ AfterJunit => PassKeepsAll("artifacts")

\* what holds of the report pass alone
ReportPassCollisionLaw == NothingOverwritten /\ (AfterJunit => PassKeepsAll("artifacts"))

(***************************************************************************)
(* C6                                                                      *)
(***************************************************************************)
\* C6: the discovered steps are the distinct second-to-last key segments of
\* the listing, each once, in the order of their first appearance.
C6_DistinctStepsFirstSeen ==
    "steps" \in assigned =>
        LET seg(i) == SecondToLast(logs_blobs[i], FALSE)
            first(s) == Min({i \in DOMAIN logs_blobs : seg(i) = s})
        IN  /\ \A i, j \in DOMAIN steps : steps[i] = steps[j] => i = j
            /\ Range(steps) = {seg(i) : i \in DOMAIN logs_blobs}
            /\ \A i, j \in DOMAIN steps : i < j => first(steps[i]) < first(steps[j])

(***************************************************************************)
(* C7                                                                      *)
(***************************************************************************)
\* the candidate files that do not parse
BadFiles(f) ==
    {p \in PodFiles(f) : f[p].data.kind # "json"}
        \cup {p \in JunitFiles(f) : f[p].data.kind # "junit"}
WithoutBadFiles(f) == [p \in DOMAIN f \ BadFiles(f) |-> f[p]]

TestScanSkipsBadFiles ==
    AfterTestScan =>
        \E order \in WalkOrders(JunitFiles(WithoutBadFiles(fs))) :
            test_failures = _find_test_failures(WithoutBadFiles(fs), order, verbose)

PodScanSkipsBadFiles ==
    AfterPodScan =>
        \E order \in WalkOrders(PodFiles(WithoutBadFiles(fs))) :
            pod_failures = _find_pod_failures(WithoutBadFiles(fs), order).failures

\* C7: a finished.json or JUnit report that does not parse never ends the
\* run: the file is skipped and both scans return what they return with the
\* file absent.
C7_ParseAnomaliesIsolated ==
    /\ error # "JSONDecodeError"
    /\ PodScanSkipsBadFiles
    /\ TestScanSkipsBadFiles

(***************************************************************************)
(* C8                                                                      *)
(***************************************************************************)
\* C8: the test scan returns no two records with the same step, kind, test
\* name and report path; with verbose reporting off every record has no
\* test name and no report path, so there is at most one per step.
C8_NoDuplicateTestFailures ==
    AfterTestScan =>
        /\ \A i, j \in DOMAIN test_failures :
             (/\ test_failures[i].step = test_failures[j].step
              /\ test_failures[i].failure_type = test_failures[j].failure_type
              /\ test_failures[i].failed_test_name = test_failures[j].failed_test_name
              /\ test_failures[i].failed_test_junit_path
                     = test_failures[j].failed_test_junit_path) => i = j
        /\ ~verbose =>
             /\ \A i \in DOMAIN test_failures :
                  /\ test_failures[i].failed_test_name = None
                  /\ test_failures[i].failed_test_junit_path = None
             /\ \A i, j \in DOMAIN test_failures :
                  test_failures[i].step = test_failures[j].step => i = j

\* verbose off, two reports of one step with four failing results between them
C8_Witness ==
    /\ pc = "done" /\ ~verbose
    /\ \E p, q \in JunitFiles(fs) :
          /\ p # q /\ p.step = q.step
          /\ fs[p].data = DocTwice /\ fs[q].data = DocFail
          /\ Cardinality({i \in DOMAIN test_failures : test_failures[i].step = p.step}) = 1

(***************************************************************************)
(* C9                                                                      *)
(***************************************************************************)
\* C9: when the analysis completes, has_failures says the failure list is
\* not empty, has_test_failures that it holds a TEST_FAILURE and
\* has_pod_failures that it holds a POD_FAILURE; has_failures is their
\* disjunction, and all three are false when the list is absent.
C9_FlagsAgreeWithFailures ==
    pc = "done" =>
        LET out == IF failures = None THEN <<>> ELSE failures[1]
        IN  /\ has_failures = (Len(out) > 0)
            /\ has_test_failures = (\E i \in DOMAIN out : out[i].failure_type = "test_failure")
            /\ has_pod_failures = (\E i \in DOMAIN out : out[i].failure_type = "pod_failure")
            /\ has_failures = (has_test_failures \/ has_pod_failures)
            /\ failures = None =>
                 ~has_failures /\ ~has_test_failures /\ ~has_pod_failures

\* a completed analysis with failures of both kinds
C9_Witness == pc = "done" /\ has_failures /\ has_test_failures /\ has_pod_failures

(***************************************************************************)
(* C10                                                                     *)
(***************************************************************************)
Hyphens == {i \in DOMAIN name : name[i] = "-"}

\* the text between the first hyphen of the name and the next one
SecondToken ==
    LET a == Min(Hyphens)
        rest == {i \in Hyphens : i > a}
        b == IF rest = {} THEN Len(name) + 1 ELSE Min(rest)
    IN  SubSeq(name, a + 1, b - 1)

NoPullRequestGiven == pr_arg = <<>> /\ env_pull = <<>>

\* C10: a job is a rehearsal exactly when its name begins with "rehearse";
\* a rehearsal given no pull request id takes the second "-"-separated
\* token of its name, or "1" when the name has fewer than two tokens, and
\* the run goes on to step discovery.
C10_RehearsalPullRequestId ==
    AfterConstruct =>
        /\ is_rehearsal = IsRehearsalName
        /\ (IsRehearsalName /\ NoPullRequestGiven) =>
              /\ pr_id = IF Hyphens = {} THEN <<"1">> ELSE SecondToken
              /\ pc = "get_steps" => error = "none"
              /\ pc # "exited"

\* a rehearsal with a one-token name has run to the end with id "1"
C10_Witness ==
    /\ pc = "done" /\ IsRehearsalName /\ NoPullRequestGiven
    /\ Hyphens = {} /\ pr_id = <<"1">>

(***************************************************************************)
(* C11                                                                     *)
(***************************************************************************)
StageOrder == <<"construct", "get_steps", "download_logs", "download_junit",
                "find_pod_failures", "find_test_failures", "find_failures",
                "derive_flags">>

Entered(stage) == stage \in Range(trace)

\* the stage an exception comes out of
AbortStage ==
    CASE error = "SystemExit" -> "get_steps"
      [] error = "FileExistsError" -> "download_logs"
      [] error = "JSONDecodeError" -> "find_pod_failures"
      [] error = "StorageError" -> outage.stage
      [] OTHER -> "none"

\* the working directory once both passes have run over the whole listing
FullyDownloaded ==
    _download_junit(DownloadBlobs, is_rehearsal,
                    _download_logs(DownloadBlobs, is_rehearsal, fs0).fs).fs

\* C11: the stages run in the one order step discovery, log pass, report
\* pass, pod scan, test scan, classification, derived flags; a scan starts
\* only on the complete result of both download passes, classification only
\* on the complete pod and test failure lists, and once a stage has aborted
\* (exit(1) or a raised error) no later stage runs and no result is set.
C11_StagesStrictlySequential ==
    /\ Len(trace) <= Len(StageOrder)
    /\ \A i \in DOMAIN trace : trace[i] = StageOrder[i]
    /\ (Entered("find_pod_failures") \/ Entered("find_test_failures")) =>
          /\ {"logs_dir", "junit_dir"} \subseteq assigned
          /\ fs = FullyDownloaded
    /\ Entered("find_failures") =>
          /\ \E order \in WalkOrders(PodFiles(fs)) :
                /\ _find_pod_failures(fs, order).error = "none"
                /\ pod_failures = _find_pod_failures(fs, order).failures
          /\ \E order \in WalkOrders(JunitFiles(fs)) :
                test_failures = _find_test_failures(fs, order, verbose)
    /\ Entered("derive_flags") => "failures" \in assigned
    /\ (pc \in {"exited", "raised"}) = (error # "none")
    /\ error # "none" =>
          /\ trace # <<>> /\ trace[Len(trace)] = AbortStage
          /\ "failures" \notin assigned
          /\ ~has_failures /\ ~has_test_failures /\ ~has_pod_failures

\* the backend failed in the report pass, after the log pass had completed
C11_Witness ==
    /\ pc = "raised" /\ error = "StorageError"
    /\ trace = SubSeq(StageOrder, 1, 4)
    /\ "logs_dir" \in assigned /\ fs # fs0

====
